---------------------------- MODULE Spec2Model ----------------------------
(***************************************************************************)
(* Model of the mesh export pipeline of step2gltf (wasm/src/lib.rs):       *)
(* step_to_triangle_buf (raw 9-float records) and step_to_gltf (GLB).      *)
(*                                                                         *)
(* Floating point.  A float is a record [k, n, d]:                         *)
(*   k = "fin"  the rational n/d in lowest terms, d > 0                    *)
(*   k = "inf"  +infinity (n = 1) or -infinity (n = -1)                    *)
(*   k = "max"  f32::MAX (n = 1) or f32::MIN = -f32::MAX (n = -1)          *)
(*   k = "nan"  NaN                                                        *)
(* Finite arithmetic is exact on rationals (rounding is abstracted away);  *)
(* the special values follow IEEE 754 and Rust's f32/f64 min and max.      *)
(* Every finite value of the bounded input domain is far inside the f32    *)
(* range, so f32::MAX and f32::MIN are ordered outside every "fin" value.  *)
(***************************************************************************)
EXTENDS Integers, Sequences, FiniteSets, TLC

\* ------------------------------------------------------------- bounds
\* Most vertices of an input mesh.
MaxVerts == 3
\* Largest coordinate of a vertex position.
MaxCoord == 1
\* Most triangles of an input mesh.
MaxTris == 2
\* Shortest JSON text the serializer is taken to return (MinJsonLen .. +3).
MinJsonLen == 600

\* ------------------------------------------------------ float values
RECURSIVE GCD(_, _)
GCD(a, b) == IF b = 0 THEN a ELSE GCD(b, a % b)

Abs(x) == IF x < 0 THEN -x ELSE x

Sign(x) == IF x < 0 THEN -1 ELSE IF x > 0 THEN 1 ELSE 0

\* The rational n/d (d # 0) in lowest terms with a positive denominator.
Rat(n, d) ==
    LET g == GCD(Abs(n), Abs(d))
        s == IF d < 0 THEN -1 ELSE 1
    IN  [k |-> "fin", n |-> (s * n) \div g, d |-> Abs(d) \div g]

Fin(i) == [k |-> "fin", n |-> i, d |-> 1]
NaN == [k |-> "nan", n |-> 0, d |-> 1]
INFINITY == [k |-> "inf", n |-> 1, d |-> 1]
NEG_INFINITY == [k |-> "inf", n |-> -1, d |-> 1]
F32_MAX == [k |-> "max", n |-> 1, d |-> 1]
F32_MIN == [k |-> "max", n |-> -1, d |-> 1]

IsNaN(a) == a.k = "nan"
IsFinite(a) == a.k \in {"fin", "max"}

\* Position of a non-NaN float among the classes
\* -inf < f32::MIN < (finite values of the model) < f32::MAX < +inf.
Class(a) == IF a.k = "inf" THEN 2 * a.n ELSE IF a.k = "max" THEN a.n ELSE 0

\* a < b for non-NaN floats.
Lt(a, b) ==
    IF Class(a) # Class(b) THEN Class(a) < Class(b)
    ELSE a.k = "fin" /\ a.n * b.d < b.n * a.d

\* Rust's {f32,f64}::min: "if one of the arguments is NaN, then the other
\* argument is returned".
FMin(a, b) == IF IsNaN(a) THEN b ELSE IF IsNaN(b) THEN a ELSE IF Lt(b, a) THEN b ELSE a

\* Rust's {f32,f64}::max, with the same treatment of NaN.
FMax(a, b) == IF IsNaN(a) THEN b ELSE IF IsNaN(b) THEN a ELSE IF Lt(a, b) THEN b ELSE a

FNeg(a) == IF IsNaN(a) THEN a ELSE [a EXCEPT !.n = -a.n]

\* IEEE addition (operands are NaN, infinite or "fin").
FAdd(a, b) ==
    IF IsNaN(a) \/ IsNaN(b) THEN NaN
    ELSE IF a.k = "inf" /\ b.k = "inf" THEN (IF a.n = b.n THEN a ELSE NaN)
    ELSE IF a.k = "inf" THEN a
    ELSE IF b.k = "inf" THEN b
    ELSE Rat(a.n * b.d + b.n * a.d, a.d * b.d)

FSub(a, b) == FAdd(a, FNeg(b))

\* IEEE multiplication.
FMul(a, b) ==
    IF IsNaN(a) \/ IsNaN(b) THEN NaN
    ELSE IF a.k = "inf" \/ b.k = "inf"
         THEN (IF a.n = 0 \/ b.n = 0 THEN NaN
               ELSE [k |-> "inf", n |-> Sign(a.n) * Sign(b.n), d |-> 1])
    ELSE Rat(a.n * b.n, a.d * b.d)

\* IEEE division; a zero divisor is +0.0 (the difference of equal values).
FDiv(a, b) ==
    IF IsNaN(a) \/ IsNaN(b) THEN NaN
    ELSE IF b.k = "inf"
         THEN (IF a.k = "inf" THEN NaN ELSE Fin(0))
    ELSE IF b.n = 0
         THEN (IF a.n = 0 THEN NaN ELSE [k |-> "inf", n |-> Sign(a.n), d |-> 1])
    ELSE IF a.k = "inf"
         THEN [k |-> "inf", n |-> a.n * Sign(b.n), d |-> 1]
    ELSE Rat(a.n * b.d, a.d * b.n)

\* `as f32`: NaN and the infinities are kept; a finite value of the model's
\* domain is in f32 range and is kept (its rounding is abstracted away).
AsF32(a) == a

\* --------------------------------------------------------- input mesh
\* Per-vertex attributes handed over by the triangulator: distinct per
\* vertex, and a normal never equals a color.
NormalOf(i) == <<Fin(i), Fin(0), Fin(1)>>
ColorOf(i) == <<Fin(1), Fin(i), Fin(0)>>

\* Vertex positions: the origin and the lattice points of the three axes.
Points ==
    {<<0, 0, 0>>}
    \cup {<<k, 0, 0>> : k \in 1 .. MaxCoord}
    \cup {<<0, k, 0>> : k \in 1 .. MaxCoord}
    \cup {<<0, 0, k>> : k \in 1 .. MaxCoord}

\* mesh.verts: n vertices at the lattice points ps[1..n].
MkVerts(ps) ==
    [i \in DOMAIN ps |->
        [pos |-> <<Fin(ps[i][1]), Fin(ps[i][2]), Fin(ps[i][3])>>,
         norm |-> NormalOf(i), color |-> ColorOf(i)]]

\* mesh.triangles: t triangles over n vertices, each three in-range, 0-based
\* vertex indices; consecutive triangles share vertices.
MkTriangles(n, t, winding) ==
    [j \in 1 .. t |->
        IF winding = "fwd"
        THEN <<(j - 1) % n, j % n, (j + 1) % n>>
        ELSE <<(j + 1) % n, j % n, (j - 1) % n>>]

\* The triangle counts a mesh of n vertices may have: none without vertices.
TriCounts(n) == IF n = 0 THEN {0} ELSE 0 .. MaxTris

\* The meshes the exports are applied to.
IsInputMesh(m) ==
    \E n \in 0 .. MaxVerts : \E ps \in [1 .. n -> Points] :
        \E t \in TriCounts(n) : \E w \in {"fwd", "rev"} :
            m = [verts |-> MkVerts(ps), triangles |-> MkTriangles(n, t, w)]

\* ------------------------------------------------------ normalization
\* The bounds loop of both exports.  Each iteration updates xmin, xmax,
\* ymin, ymax from the vertex, and then assigns zmin and zmax from the
\* *y* bounds just updated and the vertex's z.
BoundsStep(b, pos) ==
    LET xmin == FMin(b.xmin, pos[1])
        xmax == FMax(b.xmax, pos[1])
        ymin == FMin(b.ymin, pos[2])
        ymax == FMax(b.ymax, pos[2])
    IN  [xmin |-> xmin, xmax |-> xmax, ymin |-> ymin, ymax |-> ymax,
         zmin |-> FMin(ymin, pos[3]), zmax |-> FMax(ymax, pos[3])]

RECURSIVE BoundsLoop(_, _, _)
BoundsLoop(verts, i, b) ==
    IF i > Len(verts) THEN b
    ELSE BoundsLoop(verts, i + 1, BoundsStep(b, verts[i].pos))

MeshBounds(verts) ==
    BoundsLoop(verts, 1,
        [xmin |-> INFINITY, xmax |-> NEG_INFINITY,
         ymin |-> INFINITY, ymax |-> NEG_INFINITY,
         zmin |-> INFINITY, zmax |-> NEG_INFINITY])

\* scale = (xmax - xmin).max(ymax - ymin).max(zmax - zmin)
Scale(b) ==
    FMax(FMax(FSub(b.xmax, b.xmin), FSub(b.ymax, b.ymin)), FSub(b.zmax, b.zmin))

\* (xc, yc, zc)
Center(b) ==
    <<FDiv(FAdd(b.xmax, b.xmin), Fin(2)),
      FDiv(FAdd(b.ymax, b.ymin), Fin(2)),
      FDiv(FAdd(b.zmax, b.zmin), Fin(2))>>

\* pos.c = (pos.c - c) / scale * 200.0, with no test of scale.
NormalizeCoord(p, c, scale) == FMul(FDiv(FSub(p, c), scale), Fin(200))

\* The second loop: every position moved by the center c and scaled.
NormalizeLoop(verts, c, scale) ==
    [i \in DOMAIN verts |->
        [verts[i] EXCEPT !.pos =
            <<NormalizeCoord(verts[i].pos[1], c[1], scale),
              NormalizeCoord(verts[i].pos[2], c[2], scale),
              NormalizeCoord(verts[i].pos[3], c[3], scale)>>]]

NormalizeIn(verts, b) == NormalizeLoop(verts, Center(b), Scale(b))

\* The mesh after the in-place normalization of its positions.
Normalize(verts) == NormalizeIn(verts, MeshBounds(verts))

\* ------------------------------------------------------------ packing
\* Mutant of Corners: a vertex index already emitted is not emitted again
\* (the records of shared vertices are welded).
Corners_Welded(triangles) ==
    LET all == [k \in 1 .. 3 * Len(triangles) |->
                    triangles[((k - 1) \div 3) + 1][((k - 1) % 3) + 1]]
        keep == {k \in DOMAIN all : \A h \in 1 .. k - 1 : all[h] # all[k]}
        nth[i \in 1 .. Cardinality(keep)] ==
            CHOOSE k \in keep : Cardinality({h \in keep : h < k}) = i - 1
    IN  [i \in 1 .. Cardinality(keep) |-> all[nth[i]]]

\* mesh.triangles.iter().flat_map(|v| v.verts.iter()): the 3*T vertex
\* indices in triangle order, corner by corner.
Corners(triangles) ==
    [k \in 1 .. 3 * Len(triangles) |->
        triangles[((k - 1) \div 3) + 1][((k - 1) % 3) + 1]]

\* v.pos.iter().chain(&v.norm).chain(&v.color), each `as f32`
\* (step_to_triangle_buf).
RawRecord(v) ==
    [c \in 1 .. 9 |-> AsF32((v.pos \o v.norm \o v.color)[c])]

\* Mutant of GltfRecord: the field order of the raw export.
GltfRecord_OrderB(v) ==
    [c \in 1 .. 9 |-> AsF32((v.pos \o v.norm \o v.color)[c])]

\* v.pos.iter().chain(&v.color).chain(&v.norm), each `as f32`
\* (step_to_gltf).
GltfRecord(v) ==
    [c \in 1 .. 9 |-> AsF32((v.pos \o v.color \o v.norm)[c])]

\* The flat sequence of the 9-float records recs, in order.
Flatten9(recs) ==
    [k \in 1 .. 9 * Len(recs) |-> recs[((k - 1) \div 9) + 1][((k - 1) % 9) + 1]]

\* &mesh.verts[*p as usize] for each corner index p.
CornerVerts(verts, cs) == [j \in 1 .. Len(cs) |-> verts[cs[j] + 1]]

RawRecords(cvs) == [j \in 1 .. Len(cvs) |-> RawRecord(cvs[j])]

GltfRecords(cvs) == [j \in 1 .. Len(cvs) |-> GltfRecord(cvs[j])]

\* The collected Vec<f32> of step_to_triangle_buf: one 9-float record per
\* corner.
RawFloats(verts, triangles) ==
    Flatten9(RawRecords(CornerVerts(verts, Corners(triangles))))

\* `tris` of step_to_gltf.
GltfFloats(verts, triangles) ==
    Flatten9(GltfRecords(CornerVerts(verts, Corners(triangles))))

\* for i in (0..tris.len()).step_by(9): Vertex { position: tris[i..i+3],
\* color: tris[i+3..i+6], normal: tris[i+6..i+9] }
TriangleVertices(tris) ==
    [j \in 1 .. (Len(tris) \div 9) |->
        LET i == 9 * (j - 1)
        IN  [position |-> <<tris[i + 1], tris[i + 2], tris[i + 3]>>,
             color |-> <<tris[i + 4], tris[i + 5], tris[i + 6]>>,
             normal |-> <<tris[i + 7], tris[i + 8], tris[i + 9]>>]]

\* ------------------------------------------------------------- bounds
RECURSIVE BoundingLoop(_, _, _)
BoundingLoop(points, j, mm) ==
    IF j > Len(points) THEN mm
    ELSE LET p == points[j].position
         IN  BoundingLoop(points, j + 1,
                 [min |-> [i \in 1 .. 3 |-> FMin(mm.min[i], p[i])],
                  max |-> [i \in 1 .. 3 |-> FMax(mm.max[i], p[i])]])

\* Mutant of bounding_coords: the fold starts from the infinities.
bounding_coords_FromInfinity(points) ==
    BoundingLoop(points, 1,
        [min |-> <<INFINITY, INFINITY, INFINITY>>,
         max |-> <<NEG_INFINITY, NEG_INFINITY, NEG_INFINITY>>])

\* bounding_coords: the fold starts from [f32::MAX; 3] and [f32::MIN; 3].
bounding_coords(points) ==
    BoundingLoop(points, 1,
        [min |-> <<F32_MAX, F32_MAX, F32_MAX>>,
         max |-> <<F32_MIN, F32_MIN, F32_MIN>>])

\* ------------------------------------------------------ GLB container
\* mem::size_of::<Vertex>(): nine f32 in a #[repr(C)] struct.
SizeOfVertex == 36
\* mem::size_of::<f32>()
SizeOfF32 == 4

\* *n = (*n + 3) & !3
align_to_multiple_of_four(n) == ((n + 3) \div 4) * 4

\* The number of zero bytes the loop of to_padded_byte_vector pushes on a
\* vector of len bytes: while new_vec.len() % 4 != 0 { new_vec.push(0) }
RECURSIVE PadLoop(_)
PadLoop(len) == IF len % 4 # 0 THEN 1 + PadLoop(len + 1) ELSE 0

\* to_padded_byte_vector(&triangle_vertices): the bytes of the #[repr(C)]
\* records (position, color, normal: 4 bytes per float) and the zero bytes
\* pushed after them.
PadBytes(floats) == [floats |-> floats, zeros |-> PadLoop(SizeOfF32 * Len(floats))]

to_padded_byte_vector(triangle_vertices) ==
    PadBytes(Flatten9([j \in 1 .. Len(triangle_vertices) |->
        triangle_vertices[j].position \o triangle_vertices[j].color
            \o triangle_vertices[j].normal]))

\* json_string.into_bytes(): the text as serialized, nothing appended.
JsonBytes(root, textLen) == [root |-> root, textLen |-> textLen, spaces |-> 0]

\* Byte lengths of the two chunks as handed to the container.
JsonChunkLen(json) == json.textLen + json.spaces
BinChunkLen(bin) == SizeOfF32 * Len(bin.floats) + bin.zeros

\* Byte offsets of the COLOR_0 and NORMAL accessors.
ColorByteOffset == 3 * SizeOfF32
NormalByteOffset == 6 * SizeOfF32

\* An accessor over the one buffer view: VEC3 of f32.
Accessor(byteOffset, count, min, max) ==
    [bufferView |-> 0, byteOffset |-> byteOffset, count |-> count,
     componentType |-> "F32", type |-> "Vec3", min |-> min, max |-> max,
     normalized |-> FALSE]

\* The json::Root built by step_to_gltf.  root.push returns the index of the
\* pushed element; every vector is empty before its first push, so buffer,
\* view, mesh and node get index 0 and the accessors 0, 1, 2.  An absent
\* Option (None) is the empty sequence.
RootOf(count, buffer_length, mm) ==
    [buffers |-> <<[byteLength |-> buffer_length, uri |-> <<>>]>>,
     bufferViews |->
        <<[buffer |-> 0, byteLength |-> buffer_length, byteOffset |-> <<>>,
           byteStride |-> <<SizeOfVertex>>, target |-> "ArrayBuffer"]>>,
     accessors |->
        <<Accessor(0, count, <<mm.min>>, <<mm.max>>),
          Accessor(ColorByteOffset, count, <<>>, <<>>),
          Accessor(NormalByteOffset, count, <<>>, <<>>)>>,
     meshes |->
        <<[primitives |->
            <<[attributes |-> [POSITION |-> 0, COLOR_0 |-> 1, NORMAL |-> 2],
               indices |-> <<>>, material |-> <<>>,
               mode |-> "Triangles"]>>]>>,
     nodes |-> <<[mesh |-> <<0>>]>>,
     scenes |-> <<[nodes |-> <<0>>]>>]

\* Mutant of BufferLength: the payload counted in floats, not bytes.
BufferLength_InFloats(triangle_vertices) == Len(triangle_vertices) * 9

\* buffer_length = triangle_vertices.len() * mem::size_of::<Vertex>()
BufferLength(triangle_vertices) == Len(triangle_vertices) * SizeOfVertex

Root(triangle_vertices) ==
    RootOf(Len(triangle_vertices), BufferLength(triangle_vertices),
           bounding_coords(triangle_vertices))

\* u32::MAX / 4: a byte length that is a multiple of 4 fits u32 exactly when
\* its number of 4-byte words is at most this.
U32MaxWords == 1073741823

\* (json_offset + buffer_length).try_into(): Ok for a sum in u32 range.  Both
\* terms are multiples of 4 and are given here in 4-byte words.
TryIntoU32(jsonWords, bufferWords) == jsonWords + bufferWords <= U32MaxWords

\* Header.length as step_to_gltf computes it.
HeaderLength(json_offset, buffer_length) == json_offset + buffer_length

\* The gltf::binary::Glb handed to to_writer.
Glb(triangle_vertices, root, jsonLen) ==
    [header |-> [magic |-> "glTF", version |-> 2,
                 length |-> HeaderLength(align_to_multiple_of_four(jsonLen),
                                         BufferLength(triangle_vertices))],
     bin |-> to_padded_byte_vector(triangle_vertices),
     json |-> JsonBytes(root, jsonLen)]

\* -------------------------------------------------------------- state
\* mesh      the triangulated mesh both exports start from
\* rawBuf    what step_to_triangle_buf returned
\* gltf      what step_to_gltf returned
\* lenCheck  a length computation of step_to_gltf on its own (SpecSize)
\* gpu       what Model::new returned for the GLB of step_to_gltf
VARIABLES mesh, rawBuf, gltf, lenCheck, gpu

vars == <<mesh, rawBuf, gltf, lenCheck, gpu>>

\* The lengths json_string.len() may have: the text is produced by the
\* external serializer, four consecutive lengths cover every residue mod 4.
JsonLens == MinJsonLen .. MinJsonLen + 3

NoRaw == [status |-> "none", verts |-> <<>>, floats |-> <<>>]

NoGlb ==
    [header |-> [magic |-> "", version |-> 0, length |-> 0],
     bin |-> [floats |-> <<>>, zeros |-> 0],
     json |-> [root |-> <<>>, textLen |-> 0, spaces |-> 0]]

NoGltf == [status |-> "none", verts |-> <<>>, glb |-> NoGlb]

NoLenCheck == [status |-> "off", count |-> 0, jsonLen |-> 0]

NoModel == [status |-> "none", vertices |-> <<>>, indices |-> <<>>, index_count |-> 0]

Init ==
    /\ IsInputMesh(mesh)
    /\ rawBuf = NoRaw
    /\ gltf = NoGltf
    /\ lenCheck = NoLenCheck
    /\ gpu = NoModel

\* step_to_triangle_buf from the normalized mesh on.
RawResult(verts, triangles) ==
    [status |-> "ok", verts |-> verts, floats |-> RawFloats(verts, triangles)]

\* step_to_triangle_buf: normalize the positions in place, then collect the
\* records.  `verts` records the mesh as normalized.
StepToTriangleBuf ==
    /\ rawBuf.status = "none"
    /\ rawBuf' = RawResult(Normalize(mesh.verts), mesh.triangles)
    /\ UNCHANGED <<mesh, gltf, lenCheck, gpu>>

\* step_to_gltf from the mapped vertices on: the conversion of the header
\* length panics ("file size exceeds binary glTF limit") when it does not fit
\* u32, and then nothing is returned.
GltfResult(verts, triangle_vertices, jsonLen) ==
    IF TryIntoU32(align_to_multiple_of_four(jsonLen) \div 4,
                  BufferLength(triangle_vertices) \div 4)
    THEN [status |-> "ok", verts |-> verts,
          glb |-> Glb(triangle_vertices, Root(triangle_vertices), jsonLen)]
    ELSE [status |-> "panic", verts |-> verts, glb |-> NoGlb]

\* The serialization and the container, for each length the text may have.
GltfStep(verts, triangle_vertices) ==
    \E jsonLen \in JsonLens :
        gltf' = GltfResult(verts, triangle_vertices, jsonLen)

GltfFrom(verts, triangles) ==
    GltfStep(verts, TriangleVertices(GltfFloats(verts, triangles)))

\* step_to_gltf: normalize, collect, map to Vertex, build the document,
\* serialize it (jsonLen bytes of text) and build the Glb.
StepToGltf ==
    /\ gltf.status = "none"
    /\ GltfFrom(Normalize(mesh.verts), mesh.triangles)
    /\ UNCHANGED <<mesh, rawBuf, lenCheck, gpu>>

Next == StepToTriangleBuf \/ StepToGltf

Spec == Init /\ [][Next]_vars

\* ---------------------------------------------- length check on its own
\* The header-length computation of step_to_gltf (json_string.len(), the
\* alignment, buffer_length, the conversion to u32) for vertex counts near
\* the 4 GiB limit, which no explicit mesh of the model reaches.  Lengths are
\* in 4-byte words, so that they stay within 32-bit integers; usize is
\* taken to be 64 bits wide, so the sum itself does not wrap.
FirstBigTris == 39768195
BigTrisSpan == 30

BigTris == FirstBigTris .. FirstBigTris + BigTrisSpan

\* buffer_length / 4 for count vertices.
BufferWords(count) == count * (SizeOfVertex \div 4)

\* align_to_multiple_of_four(json_string.len()) / 4
JsonWords(jsonLen) == align_to_multiple_of_four(jsonLen) \div 4

InitSize ==
    /\ mesh = [verts |-> <<>>, triangles |-> <<>>]
    /\ rawBuf = NoRaw
    /\ gltf = NoGltf
    /\ gpu = NoModel
    /\ \E t \in BigTris : \E jsonLen \in JsonLens :
        lenCheck = [status |-> "none", count |-> 3 * t, jsonLen |-> jsonLen]

CheckHeaderLength ==
    /\ lenCheck.status = "none"
    /\ lenCheck' =
        [lenCheck EXCEPT !.status =
            IF TryIntoU32(JsonWords(lenCheck.jsonLen), BufferWords(lenCheck.count))
            THEN "ok" ELSE "panic"]
    /\ UNCHANGED <<mesh, rawBuf, gltf, gpu>>

NextSize == CheckHeaderLength

SpecSize == InitSize /\ [][NextSize]_vars

\* ------------------------------------------------- consumer (gui)
\* The &Gltf handed to Model::new: the document and the blob (Some(bytes of
\* the BIN chunk)) of the GLB step_to_gltf returned.  The blob is kept as
\* its sequence of 4-byte floats.
GltfOf(glb) == [document |-> glb.json.root, blob |-> <<glb.bin.floats>>]

\* for buffer in gltf.buffers(): a buffer without uri has Source::Bin and
\* takes the blob ("Missing Blob" when there is none); any other source is
\* refused.
BufferData(g) ==
    [b \in 1 .. Len(g.document.buffers) |->
        IF g.document.buffers[b].uri # <<>>
        THEN [source |-> "unsupported", bytes |-> <<>>]
        ELSE IF g.blob = <<>> THEN [source |-> "missing", bytes |-> <<>>]
        ELSE [source |-> "bin", bytes |-> g.blob[1]]]

\* The VEC3 elements an accessor iterator yields: element j starts at
\* offset + j * stride bytes of the buffer's data.
ReadVec3At(data, offset, stride, count) ==
    [j \in 1 .. count |->
        [c \in 1 .. 3 |-> data[((offset + (j - 1) * stride) \div SizeOfF32) + c]]]

\* The byte stride of a view: byteStride, or the element size when absent.
StrideOf(view) == IF view.byteStride = <<>> THEN 3 * SizeOfF32 ELSE view.byteStride[1]

\* The byte offset of a view: byteOffset, or 0 when absent.
OffsetOf(view) == IF view.byteOffset = <<>> THEN 0 ELSE view.byteOffset[1]

ReadView(buffer_data, view, acc) ==
    ReadVec3At(buffer_data[view.buffer + 1].bytes, OffsetOf(view) + acc.byteOffset,
               StrideOf(view), acc.count)

\* reader.read_positions() / read_normals() / read_colors(0): the elements
\* of the accessor the primitive names.
ReadAccessor(document, buffer_data, index) ==
    ReadView(buffer_data,
             document.bufferViews[document.accessors[index + 1].bufferView + 1],
             document.accessors[index + 1])

\* into_rgba_f32() on RGB f32 colors: alpha 1.0 is appended.
into_rgba_f32(colors) == [j \in 1 .. Len(colors) |-> colors[j] \o <<Fin(1)>>]

\* reader.read_indices(): None for a primitive without index accessor, and
\* then the indices are 0 .. positions.len() - 1.
ReadIndices(document, buffer_data, primitive, positions) ==
    IF primitive.indices = <<>>
    THEN [k \in 1 .. Len(positions) |-> k - 1]
    ELSE [k \in 1 .. document.accessors[primitive.indices[1] + 1].count |->
            buffer_data[1].bytes[k]]

\* Mutant of GPUVertexOf: the normal and the color change places.
GPUVertexOf_Swapped(pos, norm, color) ==
    [pos |-> <<pos[1], pos[2], pos[3], Fin(1)>>,
     norm |-> color,
     color |-> <<norm[1], norm[2], norm[3], Fin(1)>>]

\* GPUVertex { pos: [pos[0], pos[1], pos[2], 1.0],
\*             norm: [norm[0], norm[1], norm[2], 1.0], color }
GPUVertexOf(pos, norm, color) ==
    [pos |-> <<pos[1], pos[2], pos[3], Fin(1)>>,
     norm |-> <<norm[1], norm[2], norm[3], Fin(1)>>,
     color |-> color]

\* The shortest of three lengths: zip ends with its shortest iterator.
ZipLen(a, b, c) ==
    CHOOSE n \in {Len(a), Len(b), Len(c)} : n <= Len(a) /\ n <= Len(b) /\ n <= Len(c)

\* positions.zip(normals).zip(colors).map(...).collect()
Vertices(positions, normals, colors) ==
    [k \in 1 .. ZipLen(positions, normals, colors) |->
        GPUVertexOf(positions[k], normals[k], colors[k])]

\* The Model and the vertices Model::new returns; index_count is
\* indices.len().
ModelResult(vertices, indices) ==
    [status |-> "ok", vertices |-> vertices, indices |-> indices,
     index_count |-> Len(indices)]

\* Model::new after the buffers are loaded: the first primitive of the
\* first mesh is read.
ModelRead(document, buffer_data, primitive) ==
    ModelResult(
        Vertices(ReadAccessor(document, buffer_data, primitive.attributes.POSITION),
                 ReadAccessor(document, buffer_data, primitive.attributes.NORMAL),
                 into_rgba_f32(ReadAccessor(document, buffer_data,
                                            primitive.attributes.COLOR_0))),
        ReadIndices(document, buffer_data, primitive,
                    ReadAccessor(document, buffer_data, primitive.attributes.POSITION)))

\* Model::new on a parsed GLB: a buffer that cannot be loaded panics.
ModelOf(g, buffer_data) ==
    IF \E b \in DOMAIN buffer_data : buffer_data[b].source # "bin"
    THEN [NoModel EXCEPT !.status = "panic"]
    ELSE ModelRead(g.document, buffer_data, g.document.meshes[1].primitives[1])

\* Model::new on the GLB step_to_gltf returned.
ModelNew ==
    /\ gpu.status = "none"
    /\ gltf.status = "ok"
    /\ gpu' = ModelOf(GltfOf(gltf.glb), BufferData(GltfOf(gltf.glb)))
    /\ UNCHANGED <<mesh, rawBuf, gltf, lenCheck>>

\* The exports followed by the consumer, for the meshes that have a
\* triangle; the triangles are taken in one winding, which the consumer
\* does not look at.
InitRoundTrip ==
    /\ Init
    /\ Len(mesh.triangles) >= 1
    /\ mesh.triangles = MkTriangles(Len(mesh.verts), Len(mesh.triangles), "fwd")

NextRoundTrip == StepToTriangleBuf \/ StepToGltf \/ ModelNew

SpecRoundTrip == InitRoundTrip /\ [][NextRoundTrip]_vars

\* ------------------------------------------------------------- claims
\* The two exports' results, where the export has returned.
Returned == {r \in {rawBuf, gltf} : r.status = "ok"}

\* The true axis-aligned bounding box of positions: per axis the least and
\* the greatest component.
AxisValues(verts, i) == {verts[v].pos[i] : v \in DOMAIN verts}

IsLeast(m, S) == m \in S /\ \A x \in S : ~Lt(x, m)
IsGreatest(m, S) == m \in S /\ \A x \in S : ~Lt(m, x)

AllFinite(verts) == \A v \in DOMAIN verts : \A i \in 1 .. 3 : verts[v].pos[i].k = "fin"

\* The box of verts is centered at the origin on axis i.
CenteredOn(verts, i) ==
    \E lo \in AxisValues(verts, i) : \E hi \in AxisValues(verts, i) :
        /\ IsLeast(lo, AxisValues(verts, i))
        /\ IsGreatest(hi, AxisValues(verts, i))
        /\ FAdd(lo, hi) = Fin(0)

\* The extent of the box of verts on axis i is e.
ExtentOn(verts, i, e) ==
    \E lo \in AxisValues(verts, i) : \E hi \in AxisValues(verts, i) :
        /\ IsLeast(lo, AxisValues(verts, i))
        /\ IsGreatest(hi, AxisValues(verts, i))
        /\ FSub(hi, lo) = e

\* Some two vertices of the input mesh differ.
NonzeroExtent == \E v \in DOMAIN mesh.verts : mesh.verts[v].pos # mesh.verts[1].pos

\* The box of verts is centered on all three axes and its largest extent is
\* targetSize = 200.
NormalizedBox(verts) ==
    /\ AllFinite(verts)
    /\ \A i \in 1 .. 3 : CenteredOn(verts, i)
    /\ \E i \in 1 .. 3 : ExtentOn(verts, i, Fin(200))
    /\ \A i \in 1 .. 3 : \E e \in {FSub(hi, lo) :
            hi \in AxisValues(verts, i), lo \in AxisValues(verts, i)} :
                ExtentOn(verts, i, e) /\ ~Lt(Fin(200), e)

PositionsOf(verts) == [v \in DOMAIN verts |-> verts[v].pos]

Vec(x, y, z) == <<Fin(x), Fin(y), Fin(z)>>

\* The scenario of the specification: the triangle (0,0,0),(1,0,0),(0,1,0).
ScenarioMesh ==
    /\ PositionsOf(mesh.verts) = <<Vec(0, 0, 0), Vec(1, 0, 0), Vec(0, 1, 0)>>
    /\ mesh.triangles = <<<<0, 1, 2>>>>

\* C1: for every mesh with nonzero extent, the positions as normalized by
\* either export have a bounding box centered at the origin on x, y and z
\* whose largest extent is 200; the scenario triangle is normalized to
\* (-100,-100,0),(100,-100,0),(-100,100,0) and its POSITION accessor has
\* min = [-100,-100,0], max = [100,100,0].
C1_NormalizedBoxCentered ==
    /\ \A r \in Returned : NonzeroExtent => NormalizedBox(r.verts)
    /\ \A r \in Returned : ScenarioMesh =>
        PositionsOf(r.verts) = <<Vec(-100, -100, 0), Vec(100, -100, 0), Vec(-100, 100, 0)>>
    /\ (gltf.status = "ok" /\ ScenarioMesh) =>
        /\ gltf.glb.json.root.accessors[1].min = <<Vec(-100, -100, 0)>>
        /\ gltf.glb.json.root.accessors[1].max = <<Vec(100, 100, 0)>>

\* Padded length of the JSON chunk: the text length rounded up to a
\* multiple of 4.
PaddedJsonLen(json) == ((json.textLen + 3) \div 4) * 4

\* C2: the length step_to_gltf puts in the GLB header is
\* 12 + 8 + jsonChunkLength + 8 + binChunkLength, with the padded lengths
\* of the two chunks.
C2_HeaderTotalLength ==
    gltf.status = "ok" =>
        gltf.glb.header.length =
            12 + 8 + PaddedJsonLen(gltf.glb.json) + 8 + BinChunkLen(gltf.glb.bin)

\* C3: the JSON bytes and the BIN bytes handed to the container each have a
\* length that is a multiple of 4, the JSON text being followed by the
\* space bytes that pad it and the payload by zero bytes.
C3_ChunksPadded ==
    gltf.status = "ok" =>
        /\ JsonChunkLen(gltf.glb.json) % 4 = 0
        /\ gltf.glb.json.spaces = PaddedJsonLen(gltf.glb.json) - gltf.glb.json.textLen
        /\ BinChunkLen(gltf.glb.bin) % 4 = 0
        /\ gltf.glb.bin.zeros < 4

\* The mesh is degenerate: all its vertex positions are identical, or the
\* scale the export computes from it is 0.
Degenerate ==
    /\ Len(mesh.verts) > 0
    /\ \/ ~NonzeroExtent
       \/ Scale(MeshBounds(mesh.verts)) = Fin(0)

\* The floats an export returned.
ReturnedFloats(r) == IF r = rawBuf THEN rawBuf.floats ELSE gltf.glb.bin.floats

\* C4: for a degenerate mesh both exports abort with DegenerateMeshError,
\* and no export returns a NaN or infinite position component.
C4_DegenerateRejected ==
    /\ Degenerate =>
        /\ rawBuf.status \in {"none", "DegenerateMeshError"}
        /\ gltf.status \in {"none", "DegenerateMeshError"}
    /\ \A k \in DOMAIN rawBuf.floats : rawBuf.floats[k].k = "fin"
    /\ \A k \in DOMAIN gltf.glb.bin.floats : gltf.glb.bin.floats[k].k = "fin"

\* totalLength / 4 = (12 + 8 + paddedJsonLen + 8 + paddedBinLen) / 4; the
\* payload of 36-byte records needs no padding.
TotalWords(jsonLen, count) == 3 + 2 + JsonWords(jsonLen) + 2 + BufferWords(count)

\* C5: step_to_gltf fails with the size-limit error exactly when totalLength
\* would exceed 2^32 - 1.
C5_SizeLimitExact ==
    lenCheck.status \in {"ok", "panic"} =>
        (lenCheck.status = "panic"
            <=> TotalWords(lenCheck.jsonLen, lenCheck.count) > U32MaxWords)

\* Record j (1-based) of a flat float sequence, and its three vec3 fields.
RecordAt(floats, j) == SubSeq(floats, 9 * (j - 1) + 1, 9 * j)
Field(rec, f) == SubSeq(rec, 3 * (f - 1) + 1, 3 * f)

\* The vertex of the normalized mesh that corner c (1..3) of triangle t
\* (1-based) indexes.
CornerVertex(verts, t, c) == verts[mesh.triangles[t][c] + 1]

\* Record 3*(t-1)+c of floats holds the data of corner c of triangle t: its
\* position first, and its normal and color in the other two fields.
HoldsCorner(floats, verts, t, c) ==
    /\ Field(RecordAt(floats, 3 * (t - 1) + c), 1) = CornerVertex(verts, t, c).pos
    /\ {Field(RecordAt(floats, 3 * (t - 1) + c), 2),
        Field(RecordAt(floats, 3 * (t - 1) + c), 3)}
            = {CornerVertex(verts, t, c).norm, CornerVertex(verts, t, c).color}

\* C6: both exports produce exactly 3*T vertex records (the raw export
\* 27*T floats) in triangle order, record 3*t+c holding the data of the
\* vertex that corner c of triangle t indexes, with no sharing of records.
C6_TriangleSoup ==
    \A r \in Returned :
        /\ Len(ReturnedFloats(r)) = 27 * Len(mesh.triangles)
        /\ \A t \in DOMAIN mesh.triangles : \A c \in 1 .. 3 :
            HoldsCorner(ReturnedFloats(r), r.verts, t, c)

\* Both exports have returned for a mesh of two triangles that share a
\* vertex, which appears as two records.
C6_Witness ==
    /\ rawBuf.status = "ok" /\ gltf.status = "ok"
    /\ Len(mesh.triangles) = 2
    /\ \E c1 \in 1 .. 3 : \E c2 \in 1 .. 3 :
        /\ mesh.triangles[1][c1] = mesh.triangles[2][c2]
        /\ RecordAt(rawBuf.floats, c1) = RecordAt(rawBuf.floats, 3 + c2)
    /\ \E v \in DOMAIN mesh.verts : mesh.verts[v].pos # mesh.verts[1].pos

\* The three floats a VEC3 accessor at byteOffset reads in record j of the
\* binary payload (stride 36).
AccessorReads(floats, byteOffset, j) ==
    SubSeq(RecordAt(floats, j), (byteOffset \div SizeOfF32) + 1,
           (byteOffset \div SizeOfF32) + 3)

\* The accessor the primitive names for a semantic.
PrimitiveOf(root) == root.meshes[1].primitives[1]
PositionAccessor(root) == root.accessors[PrimitiveOf(root).attributes.POSITION + 1]
ColorAccessor(root) == root.accessors[PrimitiveOf(root).attributes.COLOR_0 + 1]
NormalAccessor(root) == root.accessors[PrimitiveOf(root).attributes.NORMAL + 1]

\* C7: every record of the raw export is laid out position, normal, color
\* (Order B) and every record of the GLB payload position, color, normal
\* (Order A), so that the COLOR_0 accessor (byte offset 12) reads the
\* vertex's color and the NORMAL accessor (byte offset 24) its normal.
C7_FieldOrders ==
    /\ rawBuf.status = "ok" =>
        \A t \in DOMAIN mesh.triangles : \A c \in 1 .. 3 :
            RecordAt(rawBuf.floats, 3 * (t - 1) + c) =
                CornerVertex(rawBuf.verts, t, c).pos
                    \o CornerVertex(rawBuf.verts, t, c).norm
                    \o CornerVertex(rawBuf.verts, t, c).color
    /\ gltf.status = "ok" =>
        \A t \in DOMAIN mesh.triangles : \A c \in 1 .. 3 :
            /\ RecordAt(gltf.glb.bin.floats, 3 * (t - 1) + c) =
                CornerVertex(gltf.verts, t, c).pos
                    \o CornerVertex(gltf.verts, t, c).color
                    \o CornerVertex(gltf.verts, t, c).norm
            /\ AccessorReads(gltf.glb.bin.floats,
                    ColorAccessor(gltf.glb.json.root).byteOffset, 3 * (t - 1) + c)
                        = CornerVertex(gltf.verts, t, c).color
            /\ AccessorReads(gltf.glb.bin.floats,
                    NormalAccessor(gltf.glb.json.root).byteOffset, 3 * (t - 1) + c)
                        = CornerVertex(gltf.verts, t, c).norm

\* Both exports have returned records for a mesh with a triangle.
C7_Witness ==
    /\ rawBuf.status = "ok" /\ gltf.status = "ok"
    /\ Len(mesh.triangles) >= 1
    /\ Len(rawBuf.floats) >= 9 /\ Len(gltf.glb.bin.floats) >= 9
    /\ RecordAt(rawBuf.floats, 1) # RecordAt(gltf.glb.bin.floats, 1)

\* C8: the document describes one buffer and one buffer view, both of the
\* unpadded payload length 36 * vertexCount (stride 36), three accessors
\* POSITION, COLOR_0, NORMAL at byte offsets 0, 12, 24 with
\* count = vertexCount = 3*T, and one primitive (mode TRIANGLES, no index
\* accessor) of one mesh of one node of one scene.
C8_Document ==
    gltf.status = "ok" =>
        LET root == gltf.glb.json.root
            vertexCount == 3 * Len(mesh.triangles)
        IN  /\ Len(root.buffers) = 1 /\ Len(root.bufferViews) = 1
            /\ root.buffers[1].byteLength = 36 * vertexCount
            /\ root.buffers[1].byteLength = SizeOfF32 * Len(gltf.glb.bin.floats)
            /\ root.buffers[1].uri = <<>>
            /\ root.bufferViews[1].byteLength = 36 * vertexCount
            /\ root.bufferViews[1].byteStride = <<36>>
            /\ root.bufferViews[1].buffer = 0
            /\ Len(root.accessors) = 3
            /\ PositionAccessor(root).byteOffset = 0
            /\ ColorAccessor(root).byteOffset = 12
            /\ NormalAccessor(root).byteOffset = 24
            /\ Cardinality({PrimitiveOf(root).attributes.POSITION,
                            PrimitiveOf(root).attributes.COLOR_0,
                            PrimitiveOf(root).attributes.NORMAL}) = 3
            /\ \A a \in DOMAIN root.accessors :
                /\ root.accessors[a].count = vertexCount
                /\ root.accessors[a].bufferView = 0
                /\ root.accessors[a].type = "Vec3"
                /\ root.accessors[a].componentType = "F32"
            /\ Len(root.meshes) = 1 /\ Len(root.meshes[1].primitives) = 1
            /\ PrimitiveOf(root).mode = "Triangles"
            /\ PrimitiveOf(root).indices = <<>>
            /\ Len(root.nodes) = 1 /\ root.nodes[1].mesh = <<0>>
            /\ Len(root.scenes) = 1 /\ root.scenes[1].nodes = <<0>>

\* step_to_gltf has returned the document of a mesh of two triangles.
C8_Witness ==
    /\ gltf.status = "ok"
    /\ Len(mesh.triangles) = 2
    /\ gltf.glb.json.root.accessors[1].count = 6
    /\ gltf.glb.json.root.buffers[1].byteLength = 216

\* POSITION min/max are bounds: finite or infinite numbers with
\* min <= max on every axis.
BoundsWellFormed(acc) ==
    /\ Len(acc.min) = 1 /\ Len(acc.max) = 1
    /\ \A i \in 1 .. 3 :
        /\ ~IsNaN(acc.min[1][i]) /\ ~IsNaN(acc.max[1][i])
        /\ ~Lt(acc.max[1][i], acc.min[1][i])

\* C9: for a mesh with zero triangles step_to_gltf either aborts with
\* EmptyMeshError or returns a valid zero-count GLB: accessor count 0,
\* 4-aligned chunks, consistent totalLength, and POSITION min/max that are
\* not the inverted sentinels (min > max).
C9_EmptyMeshDefined ==
    (Len(mesh.triangles) = 0 /\ gltf.status # "none") =>
        \/ gltf.status = "EmptyMeshError"
        \/ /\ gltf.status = "ok"
           /\ \A a \in DOMAIN gltf.glb.json.root.accessors :
                gltf.glb.json.root.accessors[a].count = 0
           /\ JsonChunkLen(gltf.glb.json) % 4 = 0
           /\ BinChunkLen(gltf.glb.bin) % 4 = 0
           /\ gltf.glb.header.length =
                12 + 8 + JsonChunkLen(gltf.glb.json) + 8 + BinChunkLen(gltf.glb.bin)
           /\ BoundsWellFormed(PositionAccessor(gltf.glb.json.root))

\* IEEE minimum and maximum that propagate NaN.
PropMin(a, b) == IF IsNaN(a) \/ IsNaN(b) THEN NaN ELSE IF Lt(b, a) THEN b ELSE a
PropMax(a, b) == IF IsNaN(a) \/ IsNaN(b) THEN NaN ELSE IF Lt(a, b) THEN b ELSE a

\* The fold of the claim: from +infinity and -infinity, NaN propagating.
RECURSIVE PropFold(_, _, _)
PropFold(floats, j, mm) ==
    IF 9 * j > Len(floats) THEN mm
    ELSE PropFold(floats, j + 1,
            [min |-> [i \in 1 .. 3 |-> PropMin(mm.min[i], RecordAt(floats, j)[i])],
             max |-> [i \in 1 .. 3 |-> PropMax(mm.max[i], RecordAt(floats, j)[i])]])

\* C10 as stated: the POSITION min/max are the IEEE min/max fold of the
\* position components started from +infinity and -infinity, and a NaN
\* component propagates into the bound.
C10_FoldFromInfinity ==
    gltf.status = "ok" =>
        /\ PositionAccessor(gltf.glb.json.root).min =
            <<PropFold(gltf.glb.bin.floats, 1,
                [min |-> <<INFINITY, INFINITY, INFINITY>>,
                 max |-> <<NEG_INFINITY, NEG_INFINITY, NEG_INFINITY>>]).min>>
        /\ PositionAccessor(gltf.glb.json.root).max =
            <<PropFold(gltf.glb.bin.floats, 1,
                [min |-> <<INFINITY, INFINITY, INFINITY>>,
                 max |-> <<NEG_INFINITY, NEG_INFINITY, NEG_INFINITY>>]).max>>

\* The position components on axis i of the payload's records that are
\* not NaN.
NumbersOn(floats, i) ==
    {floats[9 * (j - 1) + i] : j \in 1 .. (Len(floats) \div 9)} \ {NaN}

\* C10 as amended: on each axis the POSITION min is the least of f32::MAX
\* and the position components that are not NaN, and the max the greatest
\* of f32::MIN and those components: the fold starts from the largest finite
\* values, not from the infinities, and a NaN component is skipped, so that
\* no bound is ever NaN.
C10_FoldFromFiniteSkippingNaN ==
    gltf.status = "ok" =>
        /\ Len(PositionAccessor(gltf.glb.json.root).min) = 1
        /\ Len(PositionAccessor(gltf.glb.json.root).max) = 1
        /\ \A i \in 1 .. 3 :
            /\ IsLeast(PositionAccessor(gltf.glb.json.root).min[1][i],
                       NumbersOn(gltf.glb.bin.floats, i) \cup {F32_MAX})
            /\ IsGreatest(PositionAccessor(gltf.glb.json.root).max[1][i],
                          NumbersOn(gltf.glb.bin.floats, i) \cup {F32_MIN})

\* step_to_gltf has returned a payload in which an axis holds both a NaN
\* and a number, and the max of that axis is the number, not NaN.
C10_Witness ==
    /\ gltf.status = "ok"
    /\ \E i \in 1 .. 3 :
        /\ \E j \in 1 .. (Len(gltf.glb.bin.floats) \div 9) :
            IsNaN(gltf.glb.bin.floats[9 * (j - 1) + i])
        /\ NumbersOn(gltf.glb.bin.floats, i) # {}
        /\ PositionAccessor(gltf.glb.json.root).max[1][i]
                \in NumbersOn(gltf.glb.bin.floats, i)

\* C11: for every mesh with T >= 1 triangles, Model::new on the GLB of
\* step_to_gltf yields exactly 3*T GPUVertex records and the identity index
\* list 0 .. 3*T-1 (index_count = 3*T), and GPUVertex k has pos, norm and
\* color equal to the position, normal and color of record k of
\* step_to_triangle_buf's output for the same mesh, each extended with a
\* fourth component 1.0.  Equality is of the float values as stored (a NaN
\* is the same value on both sides).
C11_RoundTrip ==
    (gpu.status # "none" /\ Len(mesh.triangles) >= 1) =>
        /\ gpu.status = "ok"
        /\ Len(gpu.vertices) = 3 * Len(mesh.triangles)
        /\ gpu.indices = [k \in 1 .. 3 * Len(mesh.triangles) |-> k - 1]
        /\ gpu.index_count = 3 * Len(mesh.triangles)
        /\ rawBuf.status = "ok" =>
            \A k \in DOMAIN gpu.vertices :
                /\ gpu.vertices[k].pos =
                    Field(RecordAt(rawBuf.floats, k), 1) \o <<Fin(1)>>
                /\ gpu.vertices[k].norm =
                    Field(RecordAt(rawBuf.floats, k), 2) \o <<Fin(1)>>
                /\ gpu.vertices[k].color =
                    Field(RecordAt(rawBuf.floats, k), 3) \o <<Fin(1)>>

\* Model::new has read the GLB of a mesh of two triangles with finite,
\* distinct positions, the raw export has returned for the same mesh, and
\* the normal and the color of the first GPUVertex differ.
C11_Witness ==
    /\ gpu.status = "ok" /\ rawBuf.status = "ok"
    /\ Len(mesh.triangles) = 2
    /\ Len(gpu.vertices) = 6
    /\ gpu.vertices[1].norm # gpu.vertices[1].color
    /\ gpu.vertices[1].pos # gpu.vertices[2].pos
    /\ \A k \in 1 .. 6 : \A i \in 1 .. 3 : gpu.vertices[k].pos[i].k = "fin"

=============================================================================
